---- MODULE Spec2Model ----
(***************************************************************************)
(* Model of the video pipeline orchestrator (VideoPipeline), its trigger   *)
(* surface (generate / retry endpoints) and the Ovi space lifecycle        *)
(* manager (OviSpaceManager) of antikythera-f1-generator.                  *)
(*                                                                         *)
(* Every pipeline execution owns one database session (writes are buffered *)
(* in the session until db.commit()) and, during the asset phase, one      *)
(* OviSpaceManager.  The HuggingFace backend, the collaborators and the    *)
(* database engine are the environment: what they answer is chosen         *)
(* nondeterministically.                                                   *)
(***************************************************************************)
EXTENDS Integers, Sequences, FiniteSets, TLC

\* ------------------------------------------------------------------ bounds
MaxRuns   == 2   \* pipeline executions (background tasks) that are ever started
MaxScenes == 2   \* scene descriptions and scene numbers a script answer can hold
MaxPolls  == 2   \* poll intervals that fit into wait_for_ready's timeout
MaxRetryScenes == 1   \* scenes of a script answer in the retry specification
MaxShutdowns   == 2   \* pause commands a manager used on its own issues
MaxClock       == 2   \* the clock is advanced only while it is below this minute
MaxFailures    == 4   \* mark_job_failed calls counted on one scheduled job
MaxText        == 2   \* words in a scene text

\* ------------------------------------------------------- program constants
MAX_SCENE_RETRIES     == 3
max_retries           == 3
BACKOFF_STEP_SECONDS  == 30
RESCHEDULE_MINUTES    == 30
JOB_MAX_RETRIES       == 3

Runs == 1..MaxRuns

NoError    == [type |-> "none", scene |-> 0]

Error(type) == [type |-> type, scene |-> 0]

\* ------------------------------------------------- ovi_space_manager.py
SpaceStatus == {"RUNNING", "BUILDING", "SLEEPING", "PAUSED", "STOPPED", "ERROR", "UNKNOWN"}

\* What hf_api.space_info can answer: a stage that is a SpaceStatus member, a
\* stage that is not one, no runtime at all, or an exception.
ApiAnswers == SpaceStatus \cup {"APP_STARTING", "no_runtime", "exception"}

get_status(answer) ==
    IF answer = "exception" THEN "ERROR"
    ELSE IF answer = "no_runtime" THEN "UNKNOWN"
    ELSE IF answer \in SpaceStatus THEN answer
    ELSE "UNKNOWN"

\* verify_healthy: the probe (view_api, /start_session) is only made when the
\* status is RUNNING; probe_ok says whether it went through without raising.
verify_healthy_probe_ignored(status, probe_ok) ==
    [status |-> status, is_ready |-> status = "RUNNING"]

verify_healthy(status, probe_ok) ==
    IF status # "RUNNING"
    THEN [status |-> status, is_ready |-> FALSE]
    ELSE [status |-> status, is_ready |-> probe_ok]

NoHealth == [status |-> "UNKNOWN", is_ready |-> FALSE]

\* ensure_running, status branch of one cycle: does this status get a restart
\* command before wait_for_ready (RUNNING is handled by the probe branch)?
restart_branch_not_sleeping(status) ==
    status \in {"PAUSED", "STOPPED", "ERROR"}

restart_branch(status) ==
    status \in {"SLEEPING", "PAUSED", "STOPPED", "ERROR"}

\* ensure_running, backoff between cycles: the seconds slept after the cycle
\* with 0-based index attempt, 0 meaning that no sleep is made.
backoff_wait_every_cycle(attempt) == (attempt + 1) * BACKOFF_STEP_SECONDS

backoff_wait(attempt) ==
    IF attempt < max_retries - 1 THEN (attempt + 1) * BACKOFF_STEP_SECONDS ELSE 0

\* for attempt in range(max_retries)
more_cycles(attempt) == attempt < max_retries

\* wait_for_ready: while (time.time() - start_time) < timeout_seconds
within_timeout(polls) == polls < MaxPolls

\* An OviSpaceManager as constructed by __init__, plus the position of its
\* ensure_running call and what that call has done so far.
NewManager ==
    [ pc              |-> "new",      \* new, check, verify1, wait, verify2, backoff, ready, failed, ...
      attempt         |-> 0,          \* ensure_running: attempt
      status          |-> "UNKNOWN",  \* ensure_running: status, set at the top of each cycle
      polls           |-> 0,          \* wait_for_ready: sleeps made so far
      session_started |-> FALSE,
      auto_shutdown   |-> TRUE,
      ready_on        |-> NoHealth,   \* status and probe outcome ensure_running returned True on
      success         |-> FALSE,      \* __aenter__: success, what ensure_running returned
      restarts        |-> 0,          \* restart commands issued
      pauses          |-> 0,          \* pause commands issued
      waits           |-> << >>,      \* the backoff sleeps made, in order
      stage_requested |-> "none",     \* stage asked for by the last command that went through
      shut            |-> "not_called",  \* what shutdown() returned last
      exc_in          |-> NoError,    \* __aexit__: the exception that was leaving the scope
      exc_out         |-> NoError ]   \* the last exception that left shutdown() or __aexit__

\* ------------------------------------------------------ models, exceptions
EpisodeStatus == {"PENDING", "GENERATING", "STITCHING", "UPLOADING", "PUBLISHED", "FAILED"}
SceneStatus   == {"PENDING", "GENERATING", "COMPLETED", "FAILED"}

EpisodeIds == 1..2    \* 1: the row the generate endpoint creates; 2: never created
NoRow      == [exists |-> FALSE]   \* no such row
NoEpisode  == [exists |-> FALSE]   \* self.episode is None
\* SceneGenerationError(scene_number, message): str(e) names the scene.
SceneGenerationError(scene_number) ==
    [type |-> "SceneGenerationError", scene |-> scene_number]

\* Episode row as the generate endpoint inserts it (column defaults).
NewEpisode ==
    [ exists       |-> TRUE,
      status       |-> "PENDING",
      retry_count  |-> 0,
      last_error   |-> NoError,
      youtube_url  |-> FALSE,
      duration_set |-> FALSE ]

\* Scene(...) as _generate_script builds it (column defaults after the flush).
NewScene(episode_id, scene_number) ==
    [ episode_id        |-> episode_id,
      scene_number      |-> scene_number,
      status            |-> "PENDING",
      source_image_path |-> FALSE,
      video_clip_path   |-> FALSE,
      retry_count       |-> 0,
      last_error        |-> FALSE ]     \* whether last_error is set

\* The scene numbers a script answer can carry, in the order of the answer.
RECURSIVE SeqsUpTo(_)
SeqsUpTo(n) ==
    IF n = 0 THEN { << >> }
    ELSE LET shorter == SeqsUpTo(n - 1)
         IN  shorter \cup { Append(q, k) : q \in {r \in shorter : Len(r) = n - 1}, k \in 1..MaxScenes }

ScriptAnswers == SeqsUpTo(MaxScenes)

Range(q) == { q[k] : k \in DOMAIN q }

\* ORDER BY scene_number over a set of scene rows.
RECURSIVE order_by_scene_number(_)
order_by_scene_number(S) ==
    IF S = {} THEN << >>
    ELSE LET least == CHOOSE x \in S : \A y \in S : x.scene_number <= y.scene_number
         IN  << least >> \o order_by_scene_number(S \ {least})

\* ---------------------------------- models/scheduler.py, services/scheduler.py
JobStatus == {"SCHEDULED", "RUNNING", "COMPLETED", "FAILED", "CANCELLED"}

JobIds == 1..2    \* 1: a scheduled job; 2: no such row

\* ScheduledJob row as _create_job_if_not_exists inserts it (column defaults); scheduled_for
\* and the clock are minutes.
NewJob(job_max_retries, scheduled_for) ==
    [ exists        |-> TRUE,
      status        |-> "SCHEDULED",
      retry_count   |-> 0,
      max_retries   |-> job_max_retries,
      scheduled_for |-> scheduled_for,
      error_message |-> FALSE,      \* whether error_message is set
      episode_id    |-> FALSE ]     \* whether episode_id is set

\* No scheduler in the picture.
NoSched ==
    [ jobs          |-> [id \in JobIds |-> NoRow],
      now           |-> 0,
      cancel_result |-> "none" ]    \* what the last cancel_job returned

\* mark_job_failed: if job.retry_count >= job.max_retries (after the increment)
gives_up_past_ceiling(retry_count, job_max_retries) == retry_count > job_max_retries

gives_up(retry_count, job_max_retries) == retry_count >= job_max_retries

\* mark_job_failed on the job object
mark_failed(job, now) ==
    LET j0 == [job EXCEPT !.retry_count = @ + 1, !.error_message = TRUE]
    IN  IF gives_up(j0.retry_count, j0.max_retries)
        THEN [j0 EXCEPT !.status = "FAILED"]
        ELSE [j0 EXCEPT !.status = "SCHEDULED", !.scheduled_for = now + RESCHEDULE_MINUTES]

\* ------------------- pipeline/video_pipeline.py, services/video_generator.py
\* Texts are sequences of tokens: words, and the markers and the blank the
\* prompt builders put in.  None, the missing text, is a token of its own.
None == << "None" >>

Words == {"waves", "hello"}

Texts == {None} \cup UNION { [1..n -> Words] : n \in 0..MaxText }

\* What a builder gave: the prompt, or the exception it raised.
Built(text) == [raised |-> "none", text |-> text]

Raised(type) == [raised |-> type, text |-> << >>]

NotBuilt == [raised |-> "not_built", text |-> << >>]

DEFAULT_ACTION == << "Character speaking to camera" >>

\* bool(text): None and the empty string are false.
truthy(text) == text # None /\ text # << >>

\* " ".join(parts)
RECURSIVE join(_)
join(parts) ==
    IF Len(parts) = 0 THEN << >>
    ELSE IF Len(parts) = 1 THEN parts[1]
    ELSE parts[1] \o << " " >> \o join(Tail(parts))

speech(dialogue) == << "<S>" >> \o dialogue \o << "<E>" >>

audcap(audio_description) == << "<AUDCAP>" >> \o audio_description \o << "<ENDAUDCAP>" >>

\* The optional parts both builders append, in the order they append them.
optional_parts_audio_first(dialogue, audio_description) ==
    (IF truthy(audio_description) THEN << audcap(audio_description) >> ELSE << >>)
    \o (IF truthy(dialogue) THEN << speech(dialogue) >> ELSE << >>)

optional_parts(dialogue, audio_description) ==
    (IF truthy(dialogue) THEN << speech(dialogue) >> ELSE << >>)
    \o (IF truthy(audio_description) THEN << audcap(audio_description) >> ELSE << >>)

\* VideoPipeline._build_ovi_prompt(scene)
build_ovi_prompt(action, dialogue, audio_description) ==
    Built(join(<< IF truthy(action) THEN action ELSE DEFAULT_ACTION >>
               \o optional_parts(dialogue, audio_description)))

\* VideoGenerator._build_prompt(action, dialogue, audio_description): join
\* raises TypeError when action is None.
build_prompt(action, dialogue, audio_description) ==
    IF action = None THEN Raised("TypeError")
    ELSE Built(join(<< action >> \o optional_parts(dialogue, audio_description)))

NoPrompts ==
    [ action |-> None, dialogue |-> None, audio_description |-> None,
      pipeline |-> NotBuilt, generator |-> NotBuilt ]

\* A pipeline execution before it is started.
IdleRun ==
    [ pc         |-> "idle",
      episode_id |-> 0,
      episode    |-> NoEpisode,     \* self.episode, the session's Episode object
      scenes     |-> << >>,         \* the Scene objects of _generate_script, in list order
      i          |-> 0,             \* index of the scene the asset loop is at
      error      |-> NoError,       \* the exception run()'s except clause caught
      raised     |-> NoError,       \* the exception that left run()
      started_at |-> 0,             \* retry_count of the row when it was loaded
      txn_ok     |-> TRUE,          \* FALSE once a flush failed (session needs rollback)
      locked     |-> FALSE,         \* the session holds the episode row lock
      calls      |-> {},            \* collaborators called so far
      clips      |-> << >>,         \* clip list handed to stitcher.stitch
      log_added  |-> FALSE ]

VARIABLES
    db,     \* committed database: episode rows, scene rows, failure log rows
    pl,     \* run -> pipeline execution (VideoPipeline.run and its session)
    ovi,    \* run -> its OviSpaceManager
    synth,  \* the synthesis backend's fault plan
    sched,  \* SchedulerService: the scheduled_jobs rows, the clock, the last answer
    prompts \* a scene's texts and the Ovi prompts built from them

vars == << db, pl, ovi, synth, sched, prompts >>

\* run() has returned or raised: run_pipeline_background logs and the task is
\* over.  The objects of a finished task (pipeline, session, manager) are
\* released by the time any other step is taken.
finished(r) == r.pc \in {"returned", "raised"}

released_runs ==
    [f \in Runs |-> IF finished(pl[f]) THEN [IdleRun EXCEPT !.pc = "done"] ELSE pl[f]]

released_managers ==
    [f \in Runs |-> IF finished(pl[f]) THEN NewManager ELSE ovi[f]]

\* start_space: the restart command is issued; the client is reset only when
\* the command went through.
start_space(m, ok) ==
    [m EXCEPT !.restarts = @ + 1,
              !.session_started = IF ok THEN FALSE ELSE @,
              !.stage_requested = IF ok THEN "RUNNING" ELSE @]

\* ensure_running: return True after a verify_healthy that said ready.
return_ready(m, health) ==
    [m EXCEPT !.pc = "ready", !.ready_on = health, !.session_started = TRUE,
              !.success = TRUE]

\* ensure_running, top of a cycle: get_status and the status branch.
ensure_check(e) ==
    /\ ovi[e].pc = "check"
    /\ \E answer \in ApiAnswers, ok \in BOOLEAN :
         LET status == get_status(answer)
             m0 == [ovi[e] EXCEPT !.status = status, !.polls = 0]
         IN  ovi' = [released_managers EXCEPT ![e] =
                 IF status = "RUNNING" THEN [m0 EXCEPT !.pc = "verify1"]
                 ELSE IF restart_branch(status)
                      THEN [start_space(m0, ok) EXCEPT !.pc = "wait"]
                      ELSE [m0 EXCEPT !.pc = "wait"]]

\* ensure_running, status RUNNING: verify_healthy, return True or restart.
ensure_verify_running(e) ==
    /\ ovi[e].pc = "verify1"
    /\ \E answer \in ApiAnswers, probe_ok \in BOOLEAN, ok \in BOOLEAN :
         LET status == get_status(answer)
             health == verify_healthy(status, probe_ok)
         IN  ovi' = [released_managers EXCEPT ![e] =
                 IF health.is_ready
                 THEN return_ready(@, [status |-> status, is_ready |-> probe_ok])
                 ELSE [start_space(@, ok) EXCEPT !.pc = "wait"]]

\* wait_for_ready: one iteration of the polling loop (return True on RUNNING,
\* False on ERROR, else sleep), or the timeout.
wait_for_ready(e) ==
    /\ ovi[e].pc = "wait"
    /\ IF within_timeout(ovi[e].polls)
       THEN \E answer \in ApiAnswers :
              LET status == get_status(answer)
              IN  ovi' = [released_managers EXCEPT ![e] =
                      IF status = "RUNNING" THEN [@ EXCEPT !.pc = "verify2"]
                      ELSE IF status = "ERROR" THEN [@ EXCEPT !.pc = "backoff"]
                      ELSE [@ EXCEPT !.polls = @ + 1]]
       ELSE ovi' = [released_managers EXCEPT ![e].pc = "backoff"]

\* ensure_running, after wait_for_ready returned True: verify_healthy.
ensure_verify_ready(e) ==
    /\ ovi[e].pc = "verify2"
    /\ \E answer \in ApiAnswers, probe_ok \in BOOLEAN :
         LET status == get_status(answer)
             health == verify_healthy(status, probe_ok)
         IN  ovi' = [released_managers EXCEPT ![e] =
                 IF health.is_ready
                 THEN return_ready(@, [status |-> status, is_ready |-> probe_ok])
                 ELSE [@ EXCEPT !.pc = "backoff"]]

\* ensure_running, end of a cycle: the backoff sleep and the next cycle, or
\* return False when the cycles are used up.
ensure_backoff(e) ==
    /\ ovi[e].pc = "backoff"
    /\ LET w  == backoff_wait(ovi[e].attempt)
           m0 == [ovi[e] EXCEPT !.waits = IF w > 0 THEN Append(@, w) ELSE @,
                                !.attempt = @ + 1]
       IN  ovi' = [released_managers EXCEPT ![e] =
               IF more_cycles(m0.attempt)
               THEN [m0 EXCEPT !.pc = "check"]
               ELSE [m0 EXCEPT !.pc = "failed"]]

ensure_running(e) ==
    /\ \/ ensure_check(e)
       \/ ensure_verify_running(e)
       \/ wait_for_ready(e)
       \/ ensure_verify_ready(e)
       \/ ensure_backoff(e)
    /\ UNCHANGED << db, synth, sched, prompts >>
    /\ pl' = released_runs

\* pause_space: the pause command is issued; ok says whether it went through.
pause_space(m, ok) ==
    [m EXCEPT !.pauses = @ + 1,
              !.stage_requested = IF ok THEN "PAUSED" ELSE @]

\* pause_space: does the failure of the pause command leave pause_space as an
\* exception?  (try ... except Exception: log, return False)
pause_raises_on_failure(ok) == ~ ok

pause_raises(ok) == FALSE

\* shutdown: pauses the space unless auto_shutdown is off, and returns what
\* pause_space returned, or True.
shutdown_without_pause(m, ok) == m

shutdown(m, ok) ==
    IF m.auto_shutdown
    THEN [pause_space(m, ok) EXCEPT !.shut = IF ok THEN "True" ELSE "False"]
    ELSE [m EXCEPT !.shut = "True"]

\* The exception that leaves shutdown(), NoError when it returns.
shutdown_raises(m, ok) ==
    IF m.auto_shutdown /\ pause_raises(ok) THEN Error("HfHubHTTPError") ELSE NoError

\* __aexit__(exc_type, exc_val, exc_tb): await self.shutdown(), return None.
\* The exception that goes on after __aexit__, given exc, the one that was
\* leaving the scope (NoError when the body ended normally).
aexit_outcome(m, ok, exc) ==
    IF shutdown_raises(m, ok) # NoError THEN shutdown_raises(m, ok) ELSE exc

\* ------------------------------------------------------- api/episodes.py
\* The episode row lock: a session that has flushed an UPDATE of the row
\* holds it until its transaction ends; other writers of the row wait.
row_locked(id) == \E f \in Runs : pl[f].episode_id = id /\ pl[f].locked

\* Background tasks are taken from the pool of runs in order.
next_run(e) ==
    /\ pl[e].pc = "idle"
    /\ \A f \in Runs : f < e => pl[f].pc # "idle"

\* run_pipeline_background(episode_id): VideoPipeline(episode_id).run()
start_run(id) == [IdleRun EXCEPT !.pc = "load", !.episode_id = id]

\* POST /generate: no episode yet (else 409), the row is inserted PENDING and
\* committed when the request ends (the get_db dependency), the pipeline
\* starts as a background task.
generate_episode(e) ==
    /\ next_run(e)
    /\ ~ db.episodes[1].exists
    /\ db' = [db EXCEPT !.episodes[1] = NewEpisode]
    /\ pl' = [released_runs EXCEPT ![e] = start_run(1)]
    /\ UNCHANGED << synth, sched, prompts >>
    /\ ovi' = released_managers

\* POST /{episode_id}/retry: 404 without a row; otherwise the status is reset
\* and retry_count incremented whatever the status is, and the pipeline
\* starts as a background task.  The UPDATE waits for the row lock.
retry_status(status) == "GENERATING"

retry_episode(e) ==
    /\ next_run(e)
    /\ \E id \in EpisodeIds :
         /\ db.episodes[id].exists
         /\ ~ row_locked(id)
         /\ db' = [db EXCEPT !.episodes[id].status = retry_status(@),
                             !.episodes[id].retry_count = @ + 1]
         /\ pl' = [released_runs EXCEPT ![e] = start_run(id)]
    /\ UNCHANGED << synth, sched, prompts >>
    /\ ovi' = released_managers

\* VideoPipeline(episode_id).run() for an episode id that has no row.
run_without_row(e) ==
    /\ next_run(e)
    /\ \E id \in EpisodeIds :
         /\ ~ db.episodes[id].exists
         /\ pl' = [released_runs EXCEPT ![e] = start_run(id)]
    /\ UNCHANGED << db, synth, sched, prompts >>
    /\ ovi' = released_managers

\* ------------------------------------------------ pipeline/video_pipeline.py
\* An exception reaches the except clause of run().
to_handler(r, error) == [r EXCEPT !.pc = "handle_failure", !.error = error]

\* _load_episode
load_episode(e) ==
    /\ pl[e].pc = "load"
    /\ LET row == db.episodes[pl[e].episode_id]
       IN  pl' = [released_runs EXCEPT ![e] =
               IF ~ row.exists
               THEN to_handler(@, Error("ValueError"))
               ELSE [@ EXCEPT !.episode = row, !.started_at = row.retry_count, !.pc = "set_generating"]]
    /\ UNCHANGED << db, synth, sched, prompts >>
    /\ ovi' = released_managers

\* _update_status: self.episode.status = status; await db.flush()
update_status(r, status) == [r EXCEPT !.episode.status = status]

\* run(): _update_status(GENERATING).  The first flush of the session writes
\* the episode row and takes its lock.
set_generating(e) ==
    /\ pl[e].pc = "set_generating"
    /\ \A f \in Runs : f # e /\ pl[f].episode_id = pl[e].episode_id => ~ pl[f].locked
    /\ pl' = [released_runs EXCEPT ![e] = [update_status(@, "GENERATING") EXCEPT !.pc = "script", !.locked = TRUE]]
    /\ UNCHANGED << db, synth, sched, prompts >>
    /\ ovi' = released_managers

\* uq_scene_episode_number: the flush of new scenes fails when two of them,
\* or one of them and a committed scene of the episode, share a scene number.
unique_violation_none(id, numbers) == FALSE

unique_violation(id, numbers) ==
    \/ \E a, b \in DOMAIN numbers : a # b /\ numbers[a] = numbers[b]
    \/ \E s \in db.scenes : s.episode_id = id /\ s.scene_number \in Range(numbers)

\* _generate_script: the script collaborator, then one Scene per scene of the
\* answer in the answer's order, then the flush.
generate_script(e) ==
    /\ pl[e].pc = "script"
    /\ \E raises \in BOOLEAN, answer \in ScriptAnswers :
         LET r0 == [pl[e] EXCEPT !.calls = @ \cup {"script"}]
             id == pl[e].episode_id
         IN  pl' = [released_runs EXCEPT ![e] =
                 IF raises THEN to_handler(r0, Error("ScriptGenerationError"))
                 ELSE IF unique_violation(id, answer)
                      THEN [to_handler(r0, Error("IntegrityError")) EXCEPT !.txn_ok = FALSE]
                      ELSE [r0 EXCEPT !.scenes = [k \in DOMAIN answer |-> NewScene(id, answer[k])],
                                      !.pc = "aenter"]]
    /\ UNCHANGED << db, synth, sched, prompts >>
    /\ ovi' = released_managers

\* _generate_video_clips: async with OviSpaceManager(...) -- __init__ and the
\* start of __aenter__'s ensure_running.
aenter(e) ==
    /\ pl[e].pc = "aenter"
    /\ pl' = [released_runs EXCEPT ![e].pc = "ensuring"]
    /\ ovi' = [released_managers EXCEPT ![e] = [NewManager EXCEPT !.pc = "check"]]
    /\ UNCHANGED << db, synth, sched, prompts >>

\* The manager once ensure_running has returned: its locals are gone.
after_ensure(m, pc) ==
    [NewManager EXCEPT !.pc = pc, !.session_started = m.session_started,
                       !.success = m.success,
                       !.restarts = m.restarts, !.pauses = m.pauses]

\* The manager once the scope is left: only the pause commands are kept.
after_scope(m) == [NewManager EXCEPT !.pc = "closed", !.pauses = m.pauses]

\* __aenter__ after ensure_running returned: raise VideoGenerationError on
\* failure (the scope is not entered, __aexit__ will not run), else enter.
aenter_always_enters(success) == FALSE

aenter_raises(success) == ~ success

aenter_return(e) ==
    /\ pl[e].pc = "ensuring"
    /\ ovi[e].pc \in {"ready", "failed"}
    /\ IF ~ aenter_raises(ovi[e].success)
       THEN /\ pl' = [released_runs EXCEPT ![e] = [@ EXCEPT !.pc = "scene", !.i = 1]]
            /\ ovi' = [released_managers EXCEPT ![e] = after_ensure(@, "entered")]
       ELSE /\ pl' = [released_runs EXCEPT ![e] = to_handler(@, Error("VideoGenerationError"))]
            /\ ovi' = [released_managers EXCEPT ![e] = after_ensure(@, "not_entered")]
    /\ UNCHANGED << db, synth, sched, prompts >>

\* for scene in scenes: ... scene.status = GENERATING; await db.flush()
scene_begin(e) ==
    /\ pl[e].pc = "scene"
    /\ pl' = [released_runs EXCEPT ![e] =
           IF pl[e].i > Len(pl[e].scenes)
           THEN [@ EXCEPT !.pc = "aexit"]
           ELSE [@ EXCEPT !.scenes[pl[e].i].status = "GENERATING", !.pc = "image"]]
    /\ UNCHANGED << db, synth, sched, prompts >>
    /\ ovi' = released_managers

\* except Exception in the scene loop: the scene is marked FAILED, the error
\* recorded, retry_count incremented and flushed; at the ceiling
\* SceneGenerationError leaves the scope, below it the loop goes on with the
\* next scene.  The handler's own flush is not guarded: when it raises, that
\* exception leaves the scope.
scene_failed(r, type, flush_ok) ==
    LET i  == r.i
        r0 == [r EXCEPT !.scenes[i].status = "FAILED",
                        !.scenes[i].last_error = TRUE,
                        !.scenes[i].retry_count = @ + 1]
    IN  IF ~ flush_ok
        THEN [r0 EXCEPT !.pc = "aexit", !.error = Error("DBAPIError"), !.txn_ok = FALSE]
        ELSE IF r0.scenes[i].retry_count >= MAX_SCENE_RETRIES
        THEN [r0 EXCEPT !.pc = "aexit",
                        !.error = SceneGenerationError(r0.scenes[i].scene_number)]
        ELSE [r0 EXCEPT !.pc = "scene", !.i = i + 1]

\* _get_scene_image: image collaborator, upload of the image, and
\* scene.source_image_path.
get_scene_image(e) ==
    /\ pl[e].pc = "image"
    /\ \E outcome \in {"ok", "image_raises", "storage_raises"}, flush_ok \in BOOLEAN :
         LET r0 == [pl[e] EXCEPT !.calls = @ \cup
                        (IF outcome = "image_raises" THEN {"image"} ELSE {"image", "storage"})]
         IN  pl' = [released_runs EXCEPT ![e] =
                 IF outcome = "ok"
                 THEN [r0 EXCEPT !.scenes[r0.i].source_image_path = TRUE, !.pc = "video"]
                 ELSE scene_failed(r0, IF outcome = "image_raises" THEN "ImageGenerationError"
                                                                   ELSE "StorageError", flush_ok)]
    /\ UNCHANGED << db, synth, sched, prompts >>
    /\ ovi' = released_managers

\* The fault plan makes the first MAX_SCENE_RETRIES synthesis calls for the
\* doomed scene number fail; every other call may fail or succeed.
must_fail(scene_number) ==
    synth.doomed = scene_number /\ synth.calls < MAX_SCENE_RETRIES

\* ovi_manager.generate_video(image_path, prompt)
generate_video(e) ==
    /\ pl[e].pc = "video"
    /\ \E ok \in BOOLEAN, flush_ok \in BOOLEAN :
         LET r0  == [pl[e] EXCEPT !.calls = @ \cup {"video"}]
             num == r0.scenes[r0.i].scene_number
         IN  /\ must_fail(num) => ~ ok
             /\ synth' = IF must_fail(num) THEN [synth EXCEPT !.calls = @ + 1] ELSE synth
             /\ pl' = [released_runs EXCEPT ![e] =
                    IF ok THEN [r0 EXCEPT !.pc = "upload_clip"]
                    ELSE scene_failed(r0, "VideoGenerationError", flush_ok)]
    /\ UNCHANGED << db, sched, prompts >>
    /\ ovi' = released_managers

\* scene.video_clip_path = clip_path; scene.status = SceneStatus.COMPLETED
completed_without_clip(scene) == [scene EXCEPT !.status = "COMPLETED"]

completed(scene) == [scene EXCEPT !.video_clip_path = TRUE, !.status = "COMPLETED"]

\* storage.upload_video_clip, then the scene is COMPLETED and flushed.
upload_video_clip(e) ==
    /\ pl[e].pc = "upload_clip"
    /\ \E ok \in BOOLEAN, flush_ok \in BOOLEAN :
         LET r0 == [pl[e] EXCEPT !.calls = @ \cup {"storage"}]
         IN  pl' = [released_runs EXCEPT ![e] =
                 IF ok
                 THEN [r0 EXCEPT !.scenes[r0.i] = completed(@),
                                 !.pc = "scene", !.i = r0.i + 1]
                 ELSE scene_failed(r0, "StorageError", flush_ok)]
    /\ UNCHANGED << db, synth, sched, prompts >>
    /\ ovi' = released_managers

\* __aexit__: shutdown(); an exception that left the scope goes on to the
\* except clause of run(), otherwise the stitch phase is next.
aexit(e) ==
    /\ pl[e].pc = "aexit"
    /\ \E ok \in BOOLEAN :
         LET exc == aexit_outcome(ovi[e], ok, pl[e].error)
         IN  /\ ovi' = [released_managers EXCEPT ![e] = after_scope(shutdown(@, ok))]
             /\ pl' = [released_runs EXCEPT ![e] =
                    IF exc # NoError THEN to_handler(@, exc)
                    ELSE [@ EXCEPT !.pc = "set_stitching"]]
    /\ UNCHANGED << db, synth, sched, prompts >>

\* run(): _update_status(STITCHING)
set_stitching(e) ==
    /\ pl[e].pc = "set_stitching"
    /\ pl' = [released_runs EXCEPT ![e] = [update_status(@, "STITCHING") EXCEPT !.pc = "stitch"]]
    /\ UNCHANGED << db, synth, sched, prompts >>
    /\ ovi' = released_managers

\* The scenes of the episode the session's queries see: the committed rows
\* and the rows this session has flushed.
visible_scenes(r) ==
    {s \in db.scenes : s.episode_id = r.episode_id} \cup Range(r.scenes)

\* _stitch_video without the ORDER BY: the session's COMPLETED scenes in the
\* order of the work list.
clip_paths_in_list_order(r) ==
    LET done(s) == s.status = "COMPLETED" /\ s.video_clip_path
        q       == SelectSeq(r.scenes, done)
    IN  [k \in 1..Len(q) |-> q[k].scene_number]

\* _stitch_video: the episode's COMPLETED scenes ordered by scene_number, one
\* clip path for each row that has a video_clip_path.  A clip is named here
\* by the scene_number of its row.
clip_paths(r) ==
    LET q == order_by_scene_number(
                 {s \in visible_scenes(r) : /\ s.episode_id = r.episode_id
                                            /\ s.status = "COMPLETED"
                                            /\ s.video_clip_path})
    IN  [k \in 1..Len(q) |-> q[k].scene_number]

\* stitcher.stitch: ffmpeg's concat over the file list.  With an empty list
\* ffmpeg exits non-zero, which stitch turns into VideoStitchError; with clips
\* it may succeed or fail, and the upload of the final video may fail.
stitch_outcomes(clips) ==
    IF clips = << >> THEN {"stitch_raises"}
    ELSE {"ok", "stitch_raises", "storage_raises"}

\* _stitch_video: stitcher.stitch, upload of the final video, duration.
stitch_video(e) ==
    /\ pl[e].pc = "stitch"
    /\ \E outcome \in stitch_outcomes(clip_paths(pl[e])) :
         LET r0 == [pl[e] EXCEPT !.clips = clip_paths(pl[e]),
                                 !.calls = @ \cup
                        (IF outcome = "stitch_raises" THEN {"stitcher"} ELSE {"stitcher", "storage"})]
         IN  pl' = [released_runs EXCEPT ![e] =
                 IF outcome = "ok"
                 THEN [r0 EXCEPT !.episode.duration_set = TRUE, !.pc = "set_uploading"]
                 ELSE to_handler(r0, Error(IF outcome = "stitch_raises" THEN "VideoStitchError"
                                                                        ELSE "StorageError"))]
    /\ UNCHANGED << db, synth, sched, prompts >>
    /\ ovi' = released_managers

\* run(): _update_status(UPLOADING)
set_uploading(e) ==
    /\ pl[e].pc = "set_uploading"
    /\ pl' = [released_runs EXCEPT ![e] = [update_status(@, "UPLOADING") EXCEPT !.pc = "upload"]]
    /\ UNCHANGED << db, synth, sched, prompts >>
    /\ ovi' = released_managers

\* _upload_to_youtube
upload_to_youtube(e) ==
    /\ pl[e].pc = "upload"
    /\ \E ok \in BOOLEAN :
         LET r0 == [pl[e] EXCEPT !.calls = @ \cup {"uploader"}]
         IN  pl' = [released_runs EXCEPT ![e] =
                 IF ok THEN [r0 EXCEPT !.episode.youtube_url = TRUE, !.pc = "cleanup"]
                 ELSE to_handler(r0, Error("YouTubeUploadError"))]
    /\ UNCHANGED << db, synth, sched, prompts >>
    /\ ovi' = released_managers

\* _cleanup_old_assets: nothing to do, or storage.cleanup_old_race, whose
\* StorageError is not caught.
cleanup_old_assets(e) ==
    /\ pl[e].pc = "cleanup"
    /\ \E outcome \in {"not_needed", "ok", "storage_raises"} :
         LET r0 == [pl[e] EXCEPT !.calls = IF outcome = "not_needed" THEN @ ELSE @ \cup {"storage"}]
         IN  pl' = [released_runs EXCEPT ![e] =
                 IF outcome = "storage_raises" THEN to_handler(r0, Error("StorageError"))
                 ELSE [r0 EXCEPT !.pc = "publish"]]
    /\ UNCHANGED << db, synth, sched, prompts >>
    /\ ovi' = released_managers

\* db.commit(): the session's scene rows and the episode columns the session
\* has written become the committed state; the row lock is released.
commit_scenes_none(r) == db.scenes

commit_scenes(r) == db.scenes \cup Range(r.scenes)

\* run(): _update_status(PUBLISHED), published_at, youtube_url, db.commit()
publish(e) ==
    /\ pl[e].pc = "publish"
    /\ LET r0 == update_status(pl[e], "PUBLISHED")
           id == r0.episode_id
       IN  /\ pl' = [released_runs EXCEPT ![e] = [r0 EXCEPT !.pc = "returned", !.locked = FALSE]]
           /\ db' = [db EXCEPT !.episodes[id].status = r0.episode.status,
                               !.episodes[id].youtube_url = r0.episode.youtube_url,
                               !.episodes[id].duration_set = r0.episode.duration_set,
                               !.scenes = commit_scenes(r0)]
    /\ UNCHANGED << synth, sched, prompts >>
    /\ ovi' = released_managers

\* _handle_failure on the Episode object: FAILED, last_error, retry_count.
failed_episode(episode, error) ==
    [episode EXCEPT !.status = "FAILED", !.last_error = error, !.retry_count = @ + 1]

\* except Exception in run(): _handle_failure(db, e), then raise.
\*  - self.episode is None (the load found no row): the first assignment
\*    raises AttributeError out of the handler;
\*  - a flush has failed and the session was not rolled back: reading
\*    retry_count / committing raises out of the handler, nothing is committed;
\*  - otherwise FAILED, the error and the log row are committed and the
\*    original exception is re-raised.
handle_failure(e) ==
    /\ pl[e].pc = "handle_failure"
    /\ LET r  == pl[e]
           id == r.episode_id
       IN  IF ~ r.episode.exists
           THEN /\ pl' = [released_runs EXCEPT ![e] = [r EXCEPT !.pc = "raised", !.raised = Error("AttributeError"),
                                                     !.locked = FALSE]]
                /\ db' = db
           ELSE IF ~ r.txn_ok
           THEN /\ pl' = [released_runs EXCEPT ![e] = [r EXCEPT !.pc = "raised",
                                                     !.episode.status = "FAILED",
                                                     !.episode.last_error = r.error,
                                                     !.raised = Error("PendingRollbackError"),
                                                     !.scenes = << >>,
                                                     !.locked = FALSE]]
                /\ db' = db
           ELSE LET ep == failed_episode(r.episode, r.error)
                IN  /\ pl' = [released_runs EXCEPT ![e] = [r EXCEPT !.pc = "raised", !.episode = ep, !.raised = r.error,
                                                         !.log_added = TRUE, !.locked = FALSE]]
                    /\ db' = [db EXCEPT !.episodes[id].status = ep.status,
                                        !.episodes[id].last_error = ep.last_error,
                                        !.episodes[id].retry_count = ep.retry_count,
                                        !.episodes[id].youtube_url = ep.youtube_url,
                                        !.episodes[id].duration_set = ep.duration_set,
                                        !.logs[id] = @ + 1,
                                        !.scenes = commit_scenes(r)]
    /\ UNCHANGED << synth, sched, prompts >>
    /\ ovi' = released_managers

run(e) ==
    \/ load_episode(e)
    \/ set_generating(e)
    \/ generate_script(e)
    \/ aenter(e)
    \/ ensure_running(e)
    \/ aenter_return(e)
    \/ scene_begin(e)
    \/ get_scene_image(e)
    \/ generate_video(e)
    \/ upload_video_clip(e)
    \/ aexit(e)
    \/ set_stitching(e)
    \/ stitch_video(e)
    \/ set_uploading(e)
    \/ upload_to_youtube(e)
    \/ cleanup_old_assets(e)
    \/ publish(e)
    \/ handle_failure(e)

\* ------------------------------------------------------------ specification
Init ==
    /\ db = [ episodes |-> [id \in EpisodeIds |-> NoRow],
              scenes   |-> {},
              logs     |-> [id \in EpisodeIds |-> 0] ]
    /\ pl = [e \in Runs |-> IdleRun]
    /\ ovi = [e \in Runs |-> NewManager]
    /\ synth = [doomed |-> 0, calls |-> 0]
    /\ sched = NoSched
    /\ prompts = NoPrompts

Next ==
    \E e \in Runs :
        \/ generate_episode(e)
        \/ retry_episode(e)
        \/ run_without_row(e)
        \/ run(e)

Spec == Init /\ [][Next]_vars

\* One execution on its own: the first request and its background task.
NextRun ==
    \/ generate_episode(1)
    \/ run_without_row(1)
    \/ run(1)

\* ... against a synthesis backend with any fault plan.
InitRun ==
    /\ db = [ episodes |-> [id \in EpisodeIds |-> NoRow],
              scenes   |-> {},
              logs     |-> [id \in EpisodeIds |-> 0] ]
    /\ pl = [e \in Runs |-> IdleRun]
    /\ ovi = [e \in Runs |-> NewManager]
    /\ synth \in [doomed : 0..MaxScenes, calls : {0}]
    /\ sched = NoSched
    /\ prompts = NoPrompts

SpecRun == InitRun /\ [][NextRun]_vars

\* The event loop runs the background task to its end: every await of the
\* execution returns or raises, and the task is then resumed.
FairSpecRun == SpecRun /\ WF_vars(NextRun)

\* The manager used on its own ("manual management"): ensure_running, then
\* shutdown (which may be called again), or the manager as a context manager.
InitOvi ==
    /\ db = [ episodes |-> [id \in EpisodeIds |-> NoRow],
              scenes   |-> {},
              logs     |-> [id \in EpisodeIds |-> 0] ]
    /\ pl = [e \in Runs |-> IdleRun]
    /\ synth = [doomed |-> 0, calls |-> 0]
    /\ sched = NoSched
    /\ prompts = NoPrompts
    /\ \E auto \in BOOLEAN :
         ovi = [e \in Runs |-> IF e = 1 THEN [NewManager EXCEPT !.pc = "check", !.auto_shutdown = auto]
                                        ELSE NewManager]

manual_shutdown(e) ==
    /\ ovi[e].pc \in {"ready", "failed", "closed"}
    /\ ovi[e].pauses < MaxShutdowns
    /\ pl[e].pc = "idle"
    /\ \E ok \in BOOLEAN :
         ovi' = [released_managers EXCEPT ![e] =
                    [shutdown(@, ok) EXCEPT !.pc = "closed",
                                            !.exc_out = IF shutdown_raises(ovi[e], ok) # NoError
                                                        THEN shutdown_raises(ovi[e], ok) ELSE @]]
    /\ UNCHANGED << db, synth, sched, prompts >>
    /\ pl' = released_runs

\* The manager used as "async with OviSpaceManager(...)": the body, entered
\* after ensure_running returned True, ends normally or with an exception,
\* and __aexit__ runs.
manual_aexit(e) ==
    /\ ovi[e].pc = "ready"
    /\ pl[e].pc = "idle"
    /\ \E ok \in BOOLEAN, exc \in {NoError, Error("VideoGenerationError")} :
         ovi' = [released_managers EXCEPT ![e] =
                    [shutdown(@, ok) EXCEPT !.pc = "closed",
                                            !.exc_in = exc,
                                            !.exc_out = aexit_outcome(ovi[e], ok, exc)]]
    /\ UNCHANGED << db, synth, sched, prompts >>
    /\ pl' = released_runs

NextOvi ==
    \E e \in Runs :
        \/ ensure_running(e)
        \/ manual_shutdown(e)
        \/ manual_aexit(e)

SpecOvi == InitOvi /\ [][NextOvi]_vars

\* The event loop runs every task that can take a step.
FairSpecOvi == SpecOvi /\ WF_vars(NextOvi)

\* --------------------------------------------------- services/scheduler.py
\* datetime.now(SAST) moves on.
tick ==
    /\ sched.now < MaxClock
    /\ \E minutes \in {1, RESCHEDULE_MINUTES} :
         sched' = [sched EXCEPT !.now = @ + minutes]
    /\ UNCHANGED << db, pl, ovi, synth, prompts >>

\* POST /jobs/{job_id}/run: 404 without a row, 400 unless the job is SCHEDULED
\* or FAILED, else mark_job_running.
trigger_job(id) ==
    /\ sched.jobs[id].exists
    /\ sched.jobs[id].status \in {"SCHEDULED", "FAILED"}
    /\ sched' = [sched EXCEPT !.jobs[id].status = "RUNNING", !.cancel_result = "none"]
    /\ UNCHANGED << db, pl, ovi, synth, prompts >>

\* mark_job_completed(job, episode_id)
mark_job_completed(id) ==
    /\ sched.jobs[id].exists
    /\ sched' = [sched EXCEPT !.jobs[id].status = "COMPLETED",
                              !.jobs[id].episode_id = TRUE,
                              !.cancel_result = "none"]
    /\ UNCHANGED << db, pl, ovi, synth, prompts >>

\* mark_job_failed(job, error)
mark_job_failed(id) ==
    /\ sched.jobs[id].exists
    /\ sched.jobs[id].retry_count < MaxFailures
    /\ sched' = [sched EXCEPT !.jobs[id] = mark_failed(@, sched.now),
                              !.cancel_result = "none"]
    /\ UNCHANGED << db, pl, ovi, synth, prompts >>

\* cancel_job(job_id)
cancel_job(id) ==
    /\ sched' = IF sched.jobs[id].exists /\ sched.jobs[id].status = "SCHEDULED"
                THEN [sched EXCEPT !.jobs[id].status = "CANCELLED", !.cancel_result = "True"]
                ELSE [sched EXCEPT !.cancel_result = "False"]
    /\ UNCHANGED << db, pl, ovi, synth, prompts >>

\* One scheduled job with any max_retries up to the column default, and the
\* calls that can be made on it in any order.
InitSched ==
    /\ db = [ episodes |-> [id \in EpisodeIds |-> NoRow],
              scenes   |-> {},
              logs     |-> [id \in EpisodeIds |-> 0] ]
    /\ pl = [e \in Runs |-> IdleRun]
    /\ ovi = [e \in Runs |-> NewManager]
    /\ synth = [doomed |-> 0, calls |-> 0]
    /\ prompts = NoPrompts
    /\ \E job_max_retries \in 0..JOB_MAX_RETRIES :
         sched = [NoSched EXCEPT !.jobs[1] = NewJob(job_max_retries, 0)]

NextSched ==
    \/ tick
    \/ \E id \in JobIds :
         \/ trigger_job(id)
         \/ mark_job_completed(id)
         \/ mark_job_failed(id)
         \/ cancel_job(id)

SpecSched == InitSched /\ [][NextSched]_vars

\* ------------------------------------------------------- the Ovi prompts
\* prompt = self._build_ovi_prompt(scene)
pipeline_prompt ==
    /\ prompts.pipeline = NotBuilt
    /\ prompts' = [prompts EXCEPT !.pipeline =
                      build_ovi_prompt(prompts.action, prompts.dialogue, prompts.audio_description)]
    /\ UNCHANGED << db, pl, ovi, synth, sched >>

\* prompt = self._build_prompt(action, dialogue, audio_description)
generator_prompt ==
    /\ prompts.generator = NotBuilt
    /\ prompts' = [prompts EXCEPT !.generator =
                      build_prompt(prompts.action, prompts.dialogue, prompts.audio_description)]
    /\ UNCHANGED << db, pl, ovi, synth, sched >>

\* Any texts of a scene, given to both builders.
InitPrompt ==
    /\ db = [ episodes |-> [id \in EpisodeIds |-> NoRow],
              scenes   |-> {},
              logs     |-> [id \in EpisodeIds |-> 0] ]
    /\ pl = [e \in Runs |-> IdleRun]
    /\ ovi = [e \in Runs |-> NewManager]
    /\ synth = [doomed |-> 0, calls |-> 0]
    /\ sched = NoSched
    /\ \E action \in Texts, dialogue \in Texts, audio_description \in Texts :
         prompts = [NoPrompts EXCEPT !.action = action, !.dialogue = dialogue,
                                     !.audio_description = audio_description]

NextPrompt ==
    \/ pipeline_prompt
    \/ generator_prompt

SpecPrompt == InitPrompt /\ [][NextPrompt]_vars

\* =========================================================== properties

\* The episode row of a run, as committed.
row(e) == db.episodes[pl[e].episode_id]

\* The scenes of a run's episode: committed rows and the session's objects.
units(e) == visible_scenes(pl[e])

in_scope == {"scene", "image", "video", "upload_clip", "aexit"}

\* C1: every change of an episode's status is a step of the path
\* PENDING -> GENERATING -> STITCHING -> UPLOADING -> PUBLISHED, a change to
\* FAILED from a status that is not terminal, or the reset of a FAILED episode
\* to GENERATING; and an episode is PUBLISHED by an execution only after that
\* execution's stitch and upload both succeeded.
PermittedChange(a, b) ==
    \/ a = b
    \/ << a, b >> \in { << "PENDING", "GENERATING" >>, << "GENERATING", "STITCHING" >>,
                       << "STITCHING", "UPLOADING" >>, << "UPLOADING", "PUBLISHED" >> }
    \/ b = "FAILED" /\ a \notin {"PUBLISHED", "FAILED"}
    \/ a = "FAILED" /\ b = "GENERATING"

C1_StatusPath ==
    [][\A e \in Runs :
         \* the assignments an execution makes to its Episode object
         /\ (pl[e].episode.exists /\ pl'[e].episode.exists)
               => PermittedChange(pl[e].episode.status, pl'[e].episode.status)
    ]_vars

C1_RetryWrites ==
    [][\A id \in EpisodeIds :
         (db.episodes[id].exists /\ (\E e \in Runs : pl[e].pc = "idle" /\ pl'[e].pc = "load"))
            => PermittedChange(db.episodes[id].status, db'.episodes[id].status)
    ]_vars

C1_PublishedAfterStitchAndUpload ==
    \A e \in Runs :
        (pl[e].episode.exists /\ pl[e].pc # "load" /\ pl[e].episode.status = "PUBLISHED")
            => /\ pl[e].pc = "returned"
               /\ {"stitcher", "uploader"} \subseteq pl[e].calls
               /\ pl[e].episode.duration_set /\ pl[e].episode.youtube_url

\* C1 as a whole: the executions' assignments, the retry endpoint's write and
\* the condition for PUBLISHED.
C1_StatusTransitions ==
    C1_StatusPath /\ C1_RetryWrites /\ []C1_PublishedAfterStitchAndUpload

\* C2: an execution that loaded its episode and ended with an exception has
\* committed status FAILED, last_error of that exception and retry_count one
\* above the value it loaded, has appended one failure log row, and has
\* re-raised that same exception.
C2_FailureCommitted ==
    \A e \in Runs :
        (pl[e].pc = "raised" /\ pl[e].episode.exists) =>
            /\ row(e).status = "FAILED"
            /\ row(e).last_error = pl[e].error
            /\ row(e).retry_count = pl[e].started_at + 1
            /\ pl[e].log_added
            /\ pl[e].raised = pl[e].error

\* C3: while a scene of the episode has status FAILED, the episode's status
\* is not STITCHING and the stitcher has not been called.
C3_NoStitchWithFailedUnit ==
    \A e \in Runs :
        (\E s \in units(e) : s.status = "FAILED") =>
            /\ ~ (pl[e].episode.exists /\ pl[e].pc # "load" /\ pl[e].episode.status = "STITCHING")
            /\ "stitcher" \notin pl[e].calls

\* C4: when the synthesis backend fails the attempts on scene k (up to the
\* ceiling of 3) and every scene before k was completed, the execution ends
\* with SceneGenerationError for k, committed as FAILED with that error, the
\* scenes before k COMPLETED, and the stitcher not called.
position(e, k) == CHOOSE j \in DOMAIN pl[e].scenes : pl[e].scenes[j].scene_number = k

\* C4: an execution that met the failing backend on scene k after completing
\* the scenes before it ends as described above.
C4_ExhaustedUnitFailsJob ==
    \A e \in Runs :
        (/\ finished(pl[e])
         /\ synth.doomed # 0 /\ synth.calls >= 1
         /\ \E j \in DOMAIN pl[e].scenes : pl[e].scenes[j].scene_number = synth.doomed
         /\ \A j \in 1..(position(e, synth.doomed) - 1) : pl[e].scenes[j].status = "COMPLETED")
        => /\ pl[e].pc = "raised"
           /\ pl[e].raised = SceneGenerationError(synth.doomed)
           /\ row(e).status = "FAILED"
           /\ row(e).last_error = SceneGenerationError(synth.doomed)
           /\ "stitcher" \notin pl[e].calls

\* C5: once the scope of the OviSpaceManager is entered, leaving it -- at the
\* end of the scene loop or by an exception -- issues the pause command, and
\* the episode's status is still GENERATING when it does: STITCHING and FAILED
\* come after the pause.
C5_PauseOnScopeExit ==
    \A e \in Runs :
        /\ ovi[e].pc = "entered" =>
              /\ pl[e].pc \in in_scope
              /\ pl[e].episode.status = "GENERATING"
              /\ row(e).status \notin {"STITCHING", "FAILED"}
        /\ ovi[e].pc = "closed" => ovi[e].pauses = 1
        /\ (pl[e].pc \in in_scope \/ "stitcher" \in pl[e].calls
              \/ pl[e].error.type \in {"SceneGenerationError", "DBAPIError"})
              => ovi[e].pc \in {"entered", "closed"}
        /\ (pl[e].pc \in in_scope /\ pl[e].pc # "aexit") => ovi[e].pauses = 0

C5_Witness ==
    \E e \in Runs : /\ pl[e].pc = "raised" /\ pl[e].error.type = "DBAPIError"
                     /\ ovi[e].pc = "closed" /\ ovi[e].pauses = 1

\* C6: when ensure_running returned False, __aenter__ raises
\* VideoGenerationError, the scope is not entered, the execution ends FAILED
\* with that error, and no scene was attempted: every scene is PENDING and
\* neither the image collaborator nor generate_video was called.
C6_BackendUnavailable ==
    \A e \in Runs :
        (ovi[e].pc \in {"entered", "not_entered"} /\ ~ ovi[e].success) =>
            /\ ovi[e].pc = "not_entered"
            /\ pl[e].pc \in {"handle_failure", "raised"}
            /\ pl[e].error = Error("VideoGenerationError")
            /\ \A s \in units(e) : s.status = "PENDING"
            /\ pl[e].calls \cap {"image", "video"} = {}
            /\ pl[e].pc = "raised" =>
                  /\ row(e).status = "FAILED"
                  /\ row(e).last_error = Error("VideoGenerationError")
                  /\ pl[e].raised = Error("VideoGenerationError")

C6_Witness ==
    \E e \in Runs : /\ ovi[e].pc = "not_entered" /\ pl[e].pc = "raised"
                     /\ ovi[e].restarts = max_retries
                     /\ Len(pl[e].scenes) = MaxScenes


\* C7: ensure_running issues no restart command when the state is RUNNING and
\* the liveness probe succeeds; when the first state seen is SLEEPING and the
\* backend then reaches RUNNING with a successful probe in that cycle, exactly
\* one restart command has been issued, it was issued before the first poll of
\* wait_for_ready, and ensure_running returns ready.
C7_RestartOnlyWhenNeeded ==
    [][\A e \in Runs :
         \* RUNNING and the probe succeeds: return without a restart
         /\ (ovi[e].pc = "verify1" /\ ovi'[e].pc = "ready")
               => /\ ovi'[e].restarts = ovi[e].restarts
                  /\ ovi[e].attempt = 0 => ovi'[e].restarts = 0
         \* SLEEPING, then RUNNING with a successful probe: one restart
         /\ (ovi[e].pc = "verify2" /\ ovi'[e].pc = "ready"
                /\ ovi[e].attempt = 0 /\ ovi[e].status = "SLEEPING")
               => ovi'[e].restarts = 1
         \* a restart command precedes the first poll of its cycle
         /\ (ovi'[e].restarts > ovi[e].restarts)
               => /\ ovi'[e].restarts = ovi[e].restarts + 1
                  /\ ovi[e].pc \in {"check", "verify1"}
                  /\ ovi'[e].pc = "wait" /\ ovi'[e].polls = 0
         /\ (ovi[e].pc = "check" /\ ovi[e].attempt = 0) => ovi[e].restarts = 0
    ]_vars

C7_Witness ==
    \E e \in Runs : /\ ovi[e].pc = "ready" /\ ovi[e].attempt = 0
                     /\ ovi[e].status = "SLEEPING" /\ ovi[e].restarts = 1

\* C8: ensure_running returns ready only on a verify_healthy whose status was
\* RUNNING and whose probe succeeded, on the initial check as well as after
\* wait_for_ready.
C8_ReadyOnlyOnProbe ==
    \A e \in Runs :
        ovi[e].pc = "ready" => ovi[e].ready_on = [status |-> "RUNNING", is_ready |-> TRUE]

C8_Witness ==
    \E e \in Runs : ovi[e].pc = "ready" /\ ovi[e].restarts > 0 /\ ovi[e].attempt > 0

\* C9: ensure_running makes at most max_retries cycles and at most that many
\* restart commands; when no cycle ends ready it returns False after the
\* last one; after the k-th cycle (k counted from 1) it sleeps k * 30 s, and
\* it does not sleep after the last cycle.
BackoffsAfter(cycles) ==
    [k \in 1..(IF cycles < max_retries THEN cycles ELSE max_retries - 1) |-> k * BACKOFF_STEP_SECONDS]

C9_Cycles ==
    \A e \in Runs :
        ovi[e].pc \in {"check", "verify1", "wait", "verify2", "backoff", "ready", "failed"} =>
            /\ ovi[e].attempt <= max_retries
            /\ ovi[e].restarts <= max_retries
            /\ ovi[e].restarts <= ovi[e].attempt + 1
            /\ ovi[e].waits = BackoffsAfter(ovi[e].attempt)
            /\ ovi[e].pc = "failed" <=> ovi[e].attempt = max_retries

C9_Terminates ==
    \A e \in Runs : ovi[e].pc = "check" ~> ovi[e].pc \in {"closed"}

C10_MissingJobValueError ==
    \A e \in Runs :
        (pl[e].pc = "raised" /\ ~ pl[e].episode.exists) =>
            /\ pl[e].raised.type = "ValueError"
            /\ pl[e].calls = {}
            /\ ~ row(e).exists
            /\ units(e) = {}

\* C11: once the upload to YouTube has succeeded, a failure of the cleanup
\* phase does not fail the execution: no exception reaches the except clause,
\* the episode is never FAILED, and the execution returns with the episode
\* committed PUBLISHED and its youtube_url stored.
C11_CleanupFailureTolerated ==
    \A e \in Runs :
        ("uploader" \in pl[e].calls /\ pl[e].error.type # "YouTubeUploadError") =>
            /\ pl[e].error = NoError
            /\ pl[e].episode.status # "FAILED"
            /\ finished(pl[e]) =>
                  /\ pl[e].pc = "returned"
                  /\ row(e).status = "PUBLISHED"
                  /\ row(e).youtube_url

\* The script collaborator answered with no scenes and the flush went through.
empty_script(e) ==
    /\ "script" \in pl[e].calls
    /\ pl[e].pc \notin {"script"}
    /\ pl[e].scenes = << >>
    /\ pl[e].txn_ok
    /\ pl[e].error.type # "ScriptGenerationError"

\* C12: an execution whose script has no scenes never calls the uploader and
\* never sets the episode to UPLOADING or PUBLISHED; when it ends, it has
\* raised and the episode is committed FAILED.
C12_EmptyScriptFails ==
    \A e \in Runs :
        empty_script(e) =>
            /\ pl[e].episode.status \notin {"UPLOADING", "PUBLISHED"}
            /\ "uploader" \notin pl[e].calls
            /\ finished(pl[e]) => (pl[e].pc = "raised" /\ row(e).status = "FAILED")

\* Retries of a FAILED episode.  The episode is in the state its first
\* execution left it in when the script collaborator raised: FAILED,
\* retry_count 1, one failure log row, no scenes.  The backend is up (every
\* ensure_running finds the space RUNNING and healthy on its first status
\* check) and the script collaborator answers with at most MaxRetryScenes
\* scenes.
backend_up ==
    \A e \in Runs : ovi[e].attempt = 0 /\ ovi[e].restarts = 0 /\ ovi[e].polls = 0

short_scripts ==
    \A e \in Runs : Len(pl[e].scenes) <= MaxRetryScenes

InitRetry ==
    /\ db = [ episodes |-> [id \in EpisodeIds |->
                               IF id = 1 THEN failed_episode(NewEpisode, Error("ScriptGenerationError"))
                                         ELSE NoRow],
              scenes   |-> {},
              logs     |-> [id \in EpisodeIds |-> IF id = 1 THEN 1 ELSE 0] ]
    /\ pl = [e \in Runs |-> IdleRun]
    /\ ovi = [e \in Runs |-> NewManager]
    /\ synth = [doomed |-> 0, calls |-> 0]
    /\ sched = NoSched
    /\ prompts = NoPrompts

\* The scene assets are produced, stored and flushed without failure: no
\* scene is FAILED, and no execution ends on a storage or connection error.
assets_succeed ==
    \A e \in Runs :
        /\ pl[e].error.type \notin {"DBAPIError", "StorageError"}
        /\ \A k \in DOMAIN pl[e].scenes : pl[e].scenes[k].status # "FAILED"

NextRetry ==
    \E e \in Runs :
        /\ \/ retry_episode(e)
           \/ run(e)
        /\ backend_up'
        /\ short_scripts'
        /\ assets_succeed'

SpecRetry == InitRetry /\ [][NextRetry]_vars

\* Two episodes (of two races) whose generate requests have been answered:
\* both rows are committed PENDING and both background executions are
\* started.  Both managers are built from the same settings, so they command
\* the same space.  The backend is up, the scripts are short and the scene
\* assets succeed.
InitJobs ==
    /\ db = [ episodes |-> [id \in EpisodeIds |-> NewEpisode],
              scenes   |-> {},
              logs     |-> [id \in EpisodeIds |-> 0] ]
    /\ pl = [e \in Runs |-> IF e \in EpisodeIds THEN start_run(e) ELSE IdleRun]
    /\ ovi = [e \in Runs |-> NewManager]
    /\ synth = [doomed |-> 0, calls |-> 0]
    /\ sched = NoSched
    /\ prompts = NoPrompts

NextJobs ==
    \E e \in Runs :
        /\ run(e)
        /\ backend_up'
        /\ short_scripts'
        /\ assets_succeed'

SpecJobs == InitJobs /\ [][NextJobs]_vars

\* Executions started so far.
started == Cardinality({e \in Runs : pl[e].pc # "idle"})

\* C13: every call of the retry endpoint starts one execution and no step
\* starts more than one; and whatever retries and executions have happened,
\* an episode never holds two scenes with the same scene_number, neither
\* among the committed rows nor among the rows a session has flushed.
C13_OneExecutionPerCall ==
    [][/\ started' <= started + 1
       /\ \A id \in EpisodeIds :
            (db.episodes[id].exists /\ db'.episodes[id].exists
               /\ db'.episodes[id].status = "GENERATING" /\ db'.episodes[id] # db.episodes[id])
              => started' = started + 1
       /\ started' = started + 1 => db' # db
    ]_vars

C13_NoDuplicateUnits ==
    /\ \A s, t \in db.scenes :
         (s.episode_id = t.episode_id /\ s.scene_number = t.scene_number) => s = t
    /\ \A e \in Runs :
         /\ \A j, k \in DOMAIN pl[e].scenes :
              pl[e].scenes[j].scene_number = pl[e].scenes[k].scene_number => j = k
         \* a committed row with the number of a session's row is that row
         /\ \A s \in db.scenes, k \in DOMAIN pl[e].scenes :
              (s.episode_id = pl[e].episode_id /\ s.scene_number = pl[e].scenes[k].scene_number)
                 => (s = pl[e].scenes[k] /\ finished(pl[e]))

\* C13 as a whole.
C13_RetryCreatesNoDuplicates == C13_OneExecutionPerCall /\ []C13_NoDuplicateUnits

\* A retried execution met the scenes an earlier execution had committed.
C13_Witness ==
    \E e \in Runs :
        /\ pl[e].pc = "raised" /\ pl[e].error.type = "IntegrityError"
        /\ row(e).retry_count >= 2
        /\ \E s \in db.scenes : s.episode_id = pl[e].episode_id

\* The scenes of a run's episode that are committed.
persisted(e) == {s \in db.scenes : s.episode_id = pl[e].episode_id}

\* C14: an execution for an episode that has committed scenes works on those
\* scenes: in the asset loop a committed COMPLETED scene is not in its work
\* list, and a committed scene that is not COMPLETED is in its work list
\* with a retry_count that is not below the committed one.
C14_ResumesPersistedUnits ==
    \A e \in Runs :
        (pl[e].pc \in in_scope /\ ~ finished(pl[e])) =>
              \A s \in persisted(e) :
                 IF s.status = "COMPLETED"
                 THEN \A k \in DOMAIN pl[e].scenes : pl[e].scenes[k].scene_number # s.scene_number
                 ELSE \E k \in DOMAIN pl[e].scenes :
                         /\ pl[e].scenes[k].scene_number = s.scene_number
                         /\ pl[e].scenes[k].retry_count >= s.retry_count

\* C15: the retry endpoint starts an execution, and writes to the episode
\* row, only for an episode whose status is FAILED; for any other status and
\* for a missing episode it starts nothing and changes nothing.
C15_RetryOnlyWhenFailed ==
    [][\A e \in Runs :
         (pl[e].pc = "idle" /\ pl'[e].pc = "load" /\ db.episodes[pl'[e].episode_id].exists)
            => db.episodes[pl'[e].episode_id].status = "FAILED"
    ]_vars

\* C16: the committed state is the recovery point of a crash.  While an
\* execution is under way, the committed status of its episode is the status
\* the execution set at the last phase boundary, and between two scenes the
\* committed scene rows are the session's scene rows.
C16_BoundariesCommitted ==
    \A e \in Runs :
        (pl[e].episode.exists /\ pl[e].pc \notin {"load", "set_generating", "handle_failure", "raised", "returned"}) =>
            /\ row(e).status = pl[e].episode.status
            /\ pl[e].pc = "scene" => Range(pl[e].scenes) \subseteq db.scenes

\* C17: the scenes of one execution are attempted in ascending order of
\* scene_number: the scene being attempted has a greater number than every
\* scene attempted before it.
C17_AscendingAttempts ==
    \A e \in Runs :
        pl[e].pc \in {"image", "video", "upload_clip"} =>
            \A j \in 1..(pl[e].i - 1) :
                pl[e].scenes[j].scene_number < pl[e].scenes[pl[e].i].scene_number

stitch_units(e) == {s \in units(e) : s.episode_id = pl[e].episode_id}

\* Every scene is COMPLETED or FAILED when stitching is attempted.
C19_UnitsTerminal ==
    \A e \in Runs :
        pl[e].pc = "stitch" =>
            \A s \in stitch_units(e) : s.status \in {"COMPLETED", "FAILED"}

\* C19: whenever stitching is attempted, the scene numbers of the episode are
\* unique and are exactly 1..N for its N scenes, and every scene is COMPLETED
\* or FAILED.
C19_UnitsContiguousAndTerminal ==
    /\ C19_UnitsTerminal
    /\ \A e \in Runs :
         pl[e].pc = "stitch" =>
            {s.scene_number : s \in stitch_units(e)} = 1..Cardinality(stitch_units(e))

\* The execution has met no failure: no exception reached run()'s handler or
\* left run(), the session is usable, the script had scenes and no scene
\* FAILED.
all_calls_succeeded(e) ==
    /\ pl[e].error = NoError
    /\ pl[e].raised = NoError
    /\ pl[e].txn_ok
    /\ pl[e].scenes # << >>
    /\ \A k \in DOMAIN pl[e].scenes : pl[e].scenes[k].status # "FAILED"

\* The episode is committed PUBLISHED with its URL and duration, every scene
\* of the script is committed COMPLETED, and the stitcher was given one clip
\* for each of them.
published_complete(e) ==
    /\ pl[e].pc = "returned"
    /\ row(e).status = "PUBLISHED"
    /\ row(e).youtube_url
    /\ row(e).duration_set
    /\ \A k \in DOMAIN pl[e].scenes :
         /\ pl[e].scenes[k].status = "COMPLETED"
         /\ pl[e].scenes[k] \in db.scenes
    /\ "stitcher" \in pl[e].calls
    /\ Len(pl[e].clips) = Len(pl[e].scenes)
    /\ Range(pl[e].clips) = {pl[e].scenes[k].scene_number : k \in DOMAIN pl[e].scenes}

\* C20: an execution comes to an end, and when every call it made succeeded
\* it has ended with the episode PUBLISHED, all scenes of the script
\* COMPLETED, all their clips handed to the stitcher and the duration set.
C20_HappyPathPublishes ==
    <>(\E e \in Runs :
          /\ finished(pl[e])
          /\ all_calls_succeeded(e) => published_complete(e))

\* A script of MaxScenes scenes published in full.
C20_Witness ==
    \E e \in Runs :
        /\ all_calls_succeeded(e)
        /\ published_complete(e)
        /\ Len(pl[e].scenes) = MaxScenes

\* No exception leaves shutdown() or __aexit__ other than the one that was
\* already leaving the scope, and a pause command that failed is reported as
\* False.
C21_OutcomeKept ==
    \A e \in Runs :
        /\ ovi[e].exc_out = ovi[e].exc_in
        /\ ovi[e].shut = "False" => (ovi[e].pauses > 0 /\ ovi[e].auto_shutdown)
        /\ pl[e].pc = "set_stitching" => pl[e].error = NoError

\* A shutdown() on a manager that was shut down before issues no restart,
\* raises nothing, and leaves the requested stage as the first call left it
\* when that call's pause went through (otherwise it may now be PAUSED).
C21_RepeatedShutdown ==
    [][\A e \in Runs :
         (ovi[e].pc = "closed" /\ ovi'[e].pc = "closed") =>
            /\ ovi'[e].restarts = ovi[e].restarts
            /\ ovi'[e].exc_out = ovi[e].exc_out
            /\ ovi'[e].stage_requested \in {ovi[e].stage_requested, "PAUSED"}
            /\ ovi[e].shut = "True" => ovi'[e].stage_requested = ovi[e].stage_requested
    ]_vars

\* C21: shutdown() never raises; a failing pause command is reported as False
\* and changes nothing about how the scope is left (a body that ended
\* normally stays successful, an exception leaving the scope stays that
\* exception); a second shutdown() leaves the backend as the first one did.
C21_ShutdownFailureTolerated == []C21_OutcomeKept /\ C21_RepeatedShutdown

\* An exception left the scope, the pause command of __aexit__ went through,
\* and shutdown() was called again with a pause command that failed.
C21_Witness ==
    \E e \in Runs :
        /\ ovi[e].pauses = 2
        /\ ovi[e].shut = "False"
        /\ ovi[e].stage_requested = "PAUSED"
        /\ ovi[e].exc_in # NoError
        /\ ovi[e].exc_out = ovi[e].exc_in

\* C22: when generate_video raises for a scene whose retry_count stays below
\* MAX_SCENE_RETRIES, the scene is FAILED with last_error set and retry_count
\* one higher, and the execution stays at that scene: its next synthesis
\* attempt is for the same scene.
C22_RetryInPlace ==
    [][\A e \in Runs :
         (pl[e].pc = "video" /\ pl'[e].pc \notin {"video", "upload_clip"} /\ pl'[e].txn_ok) =>
            LET i == pl[e].i
                s == pl'[e].scenes[i]
            IN  /\ s.status = "FAILED"
                /\ s.last_error
                /\ s.retry_count = pl[e].scenes[i].retry_count + 1
                /\ s.retry_count < MAX_SCENE_RETRIES => pl'[e].i = i
    ]_vars

\* C23: after a restart command the polling of wait_for_ready ends only when
\* the status is RUNNING or the timeout has elapsed; no other status ends it.
C23_PollsUntilRunningOrTimeout ==
    [][\A e \in Runs :
         (ovi[e].pc = "wait" /\ ovi[e].restarts > 0 /\ ovi'[e].pc # "wait") =>
            \/ ovi'[e].pc = "verify2"
            \/ ~ within_timeout(ovi[e].polls)
    ]_vars

\* C24: mark_job_failed adds one to retry_count and sets error_message; below
\* max_retries the job is SCHEDULED again with scheduled_for 30 minutes from
\* now, otherwise it is FAILED with scheduled_for as it was.  cancel_job makes
\* a job CANCELLED only from SCHEDULED and returns True; otherwise it returns
\* False and changes no job.
C24_FailedAndCancelled ==
    [][/\ \A id \in JobIds :
            LET j == sched.jobs[id]
                k == sched'.jobs[id]
            IN  /\ (j.exists /\ k.retry_count # j.retry_count) =>
                      /\ k.retry_count = j.retry_count + 1
                      /\ k.error_message
                      /\ IF k.retry_count < k.max_retries
                         THEN k.status = "SCHEDULED" /\ k.scheduled_for = sched.now + RESCHEDULE_MINUTES
                         ELSE k.status = "FAILED" /\ k.scheduled_for = j.scheduled_for
                /\ (j.exists /\ k.status = "CANCELLED" /\ j.status # "CANCELLED") =>
                      /\ j.status = "SCHEDULED"
                      /\ sched'.cancel_result = "True"
                      /\ k = [j EXCEPT !.status = "CANCELLED"]
       /\ (sched'.cancel_result = "False" /\ sched'.now = sched.now) => sched'.jobs = sched.jobs
       /\ (sched'.cancel_result = "True" /\ sched' # sched /\ sched'.now = sched.now) =>
              \E id \in JobIds : sched.jobs[id].exists /\ sched.jobs[id].status = "SCHEDULED"
                                 /\ sched'.jobs[id].status = "CANCELLED"
    ]_vars

\* A job that used up its retries (column default) and was then refused by
\* cancel_job.
C24_Witness ==
    /\ sched.jobs[1].exists
    /\ sched.jobs[1].status = "FAILED"
    /\ sched.jobs[1].max_retries = JOB_MAX_RETRIES
    /\ sched.jobs[1].retry_count = JOB_MAX_RETRIES
    /\ sched.jobs[1].scheduled_for = RESCHEDULE_MINUTES + 1
    /\ sched.cancel_result = "False"

\* The positions at which part occurs in text.
occurrences(text, part) ==
    {k \in 1..(Len(text) - Len(part) + 1) : SubSeq(text, k, k + Len(part) - 1) = part}

\* A prompt that was built: the action text comes first, the speech marker
\* is in it exactly when there is a dialogue, the audio marker exactly when
\* there is an audio description, and the speech marker comes first of the two.
well_formed(prompt) ==
    prompt.raised = "none" =>
        LET text == prompt.text
            d    == prompts.dialogue
            a    == prompts.audio_description
        IN  /\ truthy(prompts.action) => 1 \in occurrences(text, prompts.action)
            /\ IF truthy(d) THEN occurrences(text, speech(d)) # {}
                            ELSE Range(text) \cap {"<S>", "<E>"} = {}
            /\ IF truthy(a) THEN occurrences(text, audcap(a)) # {}
                            ELSE Range(text) \cap {"<AUDCAP>", "<ENDAUDCAP>"} = {}
            /\ (truthy(d) /\ truthy(a)) =>
                  \A j \in occurrences(text, speech(d)), k \in occurrences(text, audcap(a)) : j < k

\* C25: both builders put the action text first, the speech marker if and
\* only if there is a dialogue, the audio marker if and only if there is an
\* audio description, in that order; for non-empty action, dialogue and audio
\* description they build the same prompt.
C25_PromptMarkers ==
    /\ well_formed(prompts.pipeline)
    /\ well_formed(prompts.generator)
    /\ (truthy(prompts.action) /\ truthy(prompts.dialogue) /\ truthy(prompts.audio_description)
          /\ prompts.pipeline # NotBuilt /\ prompts.generator # NotBuilt)
         => (prompts.pipeline = prompts.generator /\ prompts.pipeline.raised = "none")

\* Both builders have built the prompt of a scene with all three texts.
C25_Witness ==
    /\ truthy(prompts.action) /\ truthy(prompts.dialogue) /\ truthy(prompts.audio_description)
    /\ prompts.pipeline.raised = "none"
    /\ prompts.pipeline = prompts.generator
    /\ Len(prompts.pipeline.text) = Len(prompts.action) + Len(prompts.dialogue)
                                      + Len(prompts.audio_description) + 6

\* Every generate_video request is made on a manager whose ensure_running
\* returned True in this scope and which has not issued its pause command.
C26_RequestWhenReady ==
    [][\A e \in Runs :
         (pl[e].pc = "video" /\ pl'[e] # pl[e]) =>
            /\ ovi[e].pc = "entered"
            /\ ovi[e].success
            /\ ovi[e].session_started
            /\ ovi[e].pauses = 0
    ]_vars

\* Before ensure_running has returned True and after the pause command the
\* execution is not at a generate_video request.
C26_NoRequestOutsideScope ==
    \A e \in Runs :
        (ovi[e].pc # "entered" \/ ovi[e].pauses > 0 \/ ~ ovi[e].success) => pl[e].pc # "video"

\* C26: every generate_video request of an execution is issued after
\* ensure_running reported ready in the current scope and before that scope's
\* pause command; none is issued before readiness or after shutdown.
C26_GenerateInsideScope == C26_RequestWhenReady /\ []C26_NoRequestOutsideScope

\* A generate_video request went through on a space that had to be restarted.
C26_Witness ==
    \E e \in Runs :
        /\ pl[e].pc = "upload_clip"
        /\ "video" \in pl[e].calls
        /\ ovi[e].pc = "entered"
        /\ ovi[e].restarts > 0

\* C27: when an execution ends, its manager has issued a pause command if it
\* issued a restart command, also when ensure_running used up its cycles and
\* entering the scope raised.
C27_RestartIsPaused ==
    \A e \in Runs :
        (finished(pl[e]) /\ ovi[e].restarts > 0) => ovi[e].pauses > 0

\* The execution has been started and has not ended.
in_progress(e) == pl[e].pc \notin {"idle", "done", "returned", "raised"}

\* C28: at any time at most one execution is in progress for an episode,
\* whatever the order of generate requests, retry requests and the steps of
\* running executions.
C28_OneExecutionPerEpisode ==
    \A e, f \in Runs :
        (e # f /\ in_progress(e) /\ in_progress(f) /\ row(e).exists)
            => pl[e].episode_id # pl[f].episode_id

\* C29: no execution's pause command is issued while another execution is
\* inside its scope (its ensure_running returned True and its own shutdown
\* has not run).
C29_NoPauseUnderAnotherJob ==
    [][\A e, f \in Runs :
         (e # f /\ ovi'[e].pauses > ovi[e].pauses) => ovi[f].pc # "entered"
    ]_vars

\* A COMPLETED scene, flushed or committed, has its clip path and its source
\* image path; the clip list handed to the stitcher has one clip for every
\* COMPLETED scene of the episode.
C30_CompletedHasLocators ==
    /\ \A s \in db.scenes : s.status = "COMPLETED" => (s.video_clip_path /\ s.source_image_path)
    /\ \A e \in Runs :
         /\ \A s \in units(e) : s.status = "COMPLETED" => (s.video_clip_path /\ s.source_image_path)
         /\ "stitcher" \in pl[e].calls =>
               Range(pl[e].clips) = {s.scene_number : s \in {t \in stitch_units(e) : t.status = "COMPLETED"}}

\* A scene of an execution changes its status only from PENDING to
\* GENERATING and from GENERATING to COMPLETED or FAILED.
C30_StatusSteps ==
    [][\A e \in Runs :
         \A k \in DOMAIN pl[e].scenes \cap DOMAIN pl'[e].scenes :
            LET a == pl[e].scenes[k].status
                b == pl'[e].scenes[k].status
            IN  a # b => << a, b >> \in { << "PENDING", "GENERATING" >>,
                                          << "GENERATING", "COMPLETED" >>,
                                          << "GENERATING", "FAILED" >> }
    ]_vars

====
